---- MODULE Spec2Model ----
(***************************************************************************)
(* Route segmentation and alternative-mode augmentation                    *)
(* (scripts/route_segmentation.py).                                        *)
(*                                                                         *)
(* Coordinates are integers in units of 1e-5 degree, so the matching       *)
(* tolerance 0.0001 of create_route_segments is 10 units.  Names are       *)
(* sequences of one-character strings so that str.lower() and the          *)
(* substring test are computed, not assumed.                               *)
(***************************************************************************)
EXTENDS Integers, Sequences, FiniteSets, TLC

VARIABLES
    itinerary,        \* otp_itinerary['legs']
    clients,          \* which of publibike_client / escooter_client / otp_client are set
    pc,               \* position inside the running function
    transfer_points,  \* local transfer_points
    segments,         \* local segments (alternatives are attached in place)
    i,                \* loop index of analyze_route_with_alternatives
    probes,           \* calls of find_alternative_modes_at_transfer, in call order
    gateways,         \* what the providers and the routing service answer to one call
    output,           \* <<>> until analyze_route_with_alternatives returns, then <<dict>>
    raised,           \* TRUE when an exception left the running function
    provider,         \* what the PubliBike and the SharedMobility services hold
    calls             \* calls of the provider gateways so far, with their results

vars == <<itinerary, clients, pc, transfer_points, segments, i, probes, gateways,
          output, raised, provider, calls>>

(***************************************************************************)
(* Bounds                                                                  *)
(***************************************************************************)
MaxLegs == 3          \* legs per itinerary, segmentation specification
MaxRouteLegs == 3     \* legs per itinerary, augmentation specification
MaxCandidates == 3    \* stations or scooters a provider holds, gateway specification
MaxCalls == 2         \* gateway calls in one behaviour, gateway specification

(***************************************************************************)
(* Strings: str.lower() and the `in` substring test                        *)
(***************************************************************************)
UpperCase == <<"A","B","C","D","E","F","G","H","I","J","K","L","M",
               "N","O","P","Q","R","S","T","U","V","W","X","Y","Z">>
LowerCase == <<"a","b","c","d","e","f","g","h","i","j","k","l","m",
               "n","o","p","q","r","s","t","u","v","w","x","y","z">>

LowerChar(c) ==
    IF \E k \in 1..26 : UpperCase[k] = c
    THEN LowerCase[CHOOSE k \in 1..26 : UpperCase[k] = c]
    ELSE c

lower(s) == [k \in 1..Len(s) |-> LowerChar(s[k])]

Contains(sub, s) ==
    \E off \in 0..(Len(s) - Len(sub)) :
        \A k \in 1..Len(sub) : s[off + k] = sub[k]

bahnhof == <<"b","a","h","n","h","o","f">>
station == <<"s","t","a","t","i","o","n">>

(***************************************************************************)
(* Python values: None is <<>> and a present value v is <<v>>; a dict is a *)
(* record and an absent key is a field the record does not have.           *)
(***************************************************************************)
None == <<>>
Some(v) == <<v>>

\* dict.get(key)
Get(d, key) == IF key \in DOMAIN d THEN Some(d[key]) ELSE None

\* dict.get(key, default)
GetOr(d, key, default) == IF key \in DOMAIN d THEN d[key] ELSE default

\* round(a / b) of Python for a >= 0, b > 0: nearest, ties to even
RoundDiv(a, b) ==
    LET q == a \div b
        r == a % b
    IN  IF 2 * r < b THEN q
        ELSE IF 2 * r > b THEN q + 1
        ELSE IF q % 2 = 0 THEN q ELSE q + 1

Max(a, b) == IF a >= b THEN a ELSE b

(***************************************************************************)
(* Inputs: itineraries.  Leg durations and times are in seconds, leg       *)
(* distances in centimetres.                                               *)
(***************************************************************************)
NameZoo      == <<"Z","o","o">>
NameBahnhof  == <<"B","e","r","n"," ","B","a","h","n","h","o","f">>
NameStation  == <<"B","u","s"," ","S","t","a","t","i","o","n">>
NameStart    == <<"S","t","a","r","t">>

Walk == [mode |-> "WALK", route |-> "", duration |-> 130, distance |-> 15012]

Tram9 == [mode |-> "TRAM", route |-> "9", routeShortName |-> "9",
          routeLongName |-> "Wabern - Wankdorf", headsign |-> "Wabern",
          duration |-> 400, distance |-> 200048]

Tram10 == [mode |-> "TRAM", route |-> "10", routeShortName |-> "10",
           routeLongName |-> "Koeniz - Ostermundigen", headsign |-> "Koeniz",
           duration |-> 410, distance |-> 210024]

Bus10 == [mode |-> "BUS", route |-> "10", routeShortName |-> "B10",
          routeLongName |-> "Bus 10", headsign |-> "Bahnhof",
          duration |-> 250, distance |-> 120036]

\* a leg without the keys mode, routeShortName, routeLongName and headsign
NoModeLeg == [route |-> "", duration |-> 130, distance |-> 15012]

\* (lat, lon): the first two lie within the tolerance of each other
Points == { <<0, 0>>, <<0, 5>>, <<20, 5>> }
OriginPoint == <<40, 40>>

\* the record f extended by the field key
With(f, key, v) == [k \in DOMAIN f \cup {key} |-> IF k = key THEN v ELSE f[k]]

MakeLeg(kind, name, pt) ==
    With(kind, "to", [name |-> name, lat |-> pt[1], lon |-> pt[2]])

\* a leg whose destination has a name and no coordinates
NoCoordLeg(kind, name) == With(kind, "to", [name |-> name])

\* the walking leg and one tram line to every point under a plain name, the
\* other lines to some, the station names on a walking and a transit leg, and
\* the legs with absent keys
Legs ==
    { MakeLeg(k, NameZoo, p) : k \in { Walk, Tram9 }, p \in Points }
    \cup { MakeLeg(Tram10, NameZoo, <<0, 0>>), MakeLeg(Tram10, NameZoo, <<0, 5>>),
           MakeLeg(Bus10, NameZoo, <<20, 5>>) }
    \cup { MakeLeg(Walk, NameBahnhof, <<0, 0>>), MakeLeg(Walk, NameStation, <<20, 5>>),
           MakeLeg(Tram9, NameBahnhof, <<20, 5>>), MakeLeg(Tram9, NameStation, <<0, 0>>) }
    \cup { MakeLeg(NoModeLeg, NameZoo, <<20, 5>>), NoCoordLeg(Walk, NameZoo) }

\* the legs of the augmentation specification
RouteLegs == { MakeLeg(Walk, NameZoo, <<0, 0>>),
               MakeLeg(Tram9, NameBahnhof, <<20, 5>>) }

SeqsUpTo(S, n) == UNION { [1..m -> S] : m \in 0..n }

DepartureAt == 1000   \* startTime of the first leg
Wait == 120           \* waiting time before boarding a vehicle

\* startTime of leg k: a walking leg starts when the leg before it ends, any
\* other leg after a wait
RECURSIVE StartTime(_, _)
StartTime(legs, k) ==
    IF k = 1 THEN DepartureAt
    ELSE StartTime(legs, k - 1) + legs[k - 1].duration
         + (IF Get(legs[k], "mode") = Some("WALK") THEN 0 ELSE Wait)

\* the legs with their startTime and endTime
Timed(legs) ==
    [k \in 1..Len(legs) |->
        With(With(legs[k], "startTime", StartTime(legs, k)),
             "endTime", StartTime(legs, k) + legs[k].duration)]

Itineraries(S, n) == { Timed(legs) : legs \in SeqsUpTo(S, n) }

\* legs[0]['from']
FromInfo == [name |-> NameStart, lat |-> OriginPoint[1], lon |-> OriginPoint[2]]

(***************************************************************************)
(* extract_transfer_points                                                 *)
(***************************************************************************)
TransferPoint(name, lat, lon, arrival_time, departure_time, is_station) ==
    [name |-> name, latitude |-> lat, longitude |-> lon,
     arrival_time |-> arrival_time, departure_time |-> departure_time,
     is_station |-> is_station]

\* leg.get('to', {})
ToInfo(leg) == GetOr(leg, "to", [x \in {} |-> x])

\* f'Transfer {i+1}', i the 0-based index of the leg
TransferName(k) == <<"T","r","a","n","s","f","e","r"," ", ToString(k)>>

DestinationName == <<"D","e","s","t","i","n","a","t","i","o","n">>

\* the station test without str.lower()
is_transfer_case_sensitive(legs, k) ==
    \/ Get(legs[k], "mode") # Get(legs[k + 1], "mode")
    \/ Get(legs[k], "route") # Get(legs[k + 1], "route")
    \/ Contains(bahnhof, GetOr(ToInfo(legs[k]), "name", <<>>))
    \/ Contains(station, GetOr(ToInfo(legs[k]), "name", <<>>))

\* lines 83-88, for the pair (legs[k], legs[k+1]), k 1-based
is_transfer(legs, k) ==
    \/ Get(legs[k], "mode") # Get(legs[k + 1], "mode")
    \/ Get(legs[k], "route") # Get(legs[k + 1], "route")
    \/ Contains(bahnhof, lower(GetOr(ToInfo(legs[k]), "name", <<>>)))
    \/ Contains(station, lower(GetOr(ToInfo(legs[k]), "name", <<>>)))

\* both timestamps of the point taken from the arriving leg
IntermediatePoint_same_moment(legs, k) ==
    TransferPoint(GetOr(ToInfo(legs[k]), "name", TransferName(k)),
                  GetOr(ToInfo(legs[k]), "lat", 0),
                  GetOr(ToInfo(legs[k]), "lon", 0),
                  Get(legs[k], "endTime"),
                  Get(legs[k], "endTime"),
                  TRUE)

\* lines 90-98: the point at the destination of legs[k]
IntermediatePoint(legs, k) ==
    TransferPoint(GetOr(ToInfo(legs[k]), "name", TransferName(k)),
                  GetOr(ToInfo(legs[k]), "lat", 0),
                  GetOr(ToInfo(legs[k]), "lon", 0),
                  Get(legs[k], "endTime"),
                  Get(legs[k + 1], "startTime"),
                  TRUE)

\* the loop of lines 78-98 from pair k on, appending to acc
RECURSIVE ExtractLoop(_, _, _)
ExtractLoop(legs, k, acc) ==
    IF k > Len(legs) - 1 THEN acc
    ELSE ExtractLoop(legs, k + 1,
            IF is_transfer(legs, k)
            THEN Append(acc, IntermediatePoint(legs, k))
            ELSE acc)

\* lines 66-75
OriginTransferPoint(legs) ==
    TransferPoint(GetOr(FromInfo, "name", NameStart),
                  GetOr(FromInfo, "lat", 0),
                  GetOr(FromInfo, "lon", 0),
                  None,
                  Get(legs[1], "startTime"),
                  Get(legs[1], "mode") # Some("WALK"))

\* lines 100-109, for the leg taken as the last one
DestinationTransferPoint(last_leg) ==
    TransferPoint(GetOr(ToInfo(last_leg), "name", DestinationName),
                  GetOr(ToInfo(last_leg), "lat", 0),
                  GetOr(ToInfo(last_leg), "lon", 0),
                  Get(last_leg, "endTime"),
                  None,
                  FALSE)

\* the destination point taken from legs[0] instead of legs[-1]
extract_transfer_points_first_leg(legs) ==
    IF Len(legs) = 0 THEN <<>>
    ELSE Append(ExtractLoop(legs, 1, <<OriginTransferPoint(legs)>>),
                DestinationTransferPoint(legs[1]))

extract_transfer_points(legs) ==
    IF Len(legs) = 0 THEN <<>>
    ELSE Append(ExtractLoop(legs, 1, <<OriginTransferPoint(legs)>>),
                DestinationTransferPoint(legs[Len(legs)]))

(***************************************************************************)
(* create_route_segments                                                   *)
(***************************************************************************)
Abs(x) == IF x < 0 THEN -x ELSE x

Tolerance == 10   \* 0.0001 degree

\* lines 146-147
EndsAt(leg, tp) ==
    /\ Abs(GetOr(ToInfo(leg), "lat", 0) - tp.latitude) < Tolerance
    /\ Abs(GetOr(ToInfo(leg), "lon", 0) - tp.longitude) < Tolerance

\* the loop of lines 160-168 without its break: the last non-WALK leg
RECURSIVE FirstNonWalk_last(_, _, _)
FirstNonWalk_last(legs, from, to) ==
    IF from > to THEN 0
    ELSE IF Get(legs[to], "mode") # Some("WALK") THEN to
    ELSE FirstNonWalk_last(legs, from, to - 1)

\* lines 160-168: index of the first non-WALK leg of the span, 0 if none
RECURSIVE FirstNonWalk(_, _, _)
FirstNonWalk(legs, from, to) ==
    IF from > to THEN 0
    ELSE IF Get(legs[from], "mode") # Some("WALK") THEN from
    ELSE FirstNonWalk(legs, from + 1, to)

\* lines 163-167
RouteInfo(leg) ==
    [route |-> Get(leg, "route"),
     route_short_name |-> Get(leg, "routeShortName"),
     route_long_name |-> Get(leg, "routeLongName"),
     headsign |-> Get(leg, "headsign")]

\* route_info = {}
EmptyRouteInfo == [x \in {} |-> x]

\* the durations rounded to tenths of a minute leg by leg before they are
\* added (given back in seconds)
RECURSIVE SumOver_rounded_legs(_, _, _, _)
SumOver_rounded_legs(legs, first, last, key) ==
    IF first > last THEN 0
    ELSE (IF key = "duration"
          THEN 6 * RoundDiv(GetOr(legs[first], key, 0) * 10, 60)
          ELSE GetOr(legs[first], key, 0))
         + SumOver_rounded_legs(legs, first + 1, last, key)

\* sum(l.get(key, 0) for l in segment_legs)
RECURSIVE SumOver(_, _, _, _)
SumOver(legs, first, last, key) ==
    IF first > last THEN 0
    ELSE GetOr(legs[first], key, 0) + SumOver(legs, first + 1, last, key)

\* lines 150-178; first..last is segment_legs (1-based leg indices); from_point
\* and to_point refer to elements of transfer_points (1-based positions);
\* duration_min in tenths of a minute, distance_m in centimetres
RouteSegment(legs, tps, n, first, last, transfer_idx) ==
    LET p == FirstNonWalk(legs, first, last)
    IN  [segment_id |-> n,
         from_point |-> transfer_idx - 1,
         to_point   |-> transfer_idx,
         first |-> first, last |-> last,
         mode |-> IF p = 0 THEN "WALK" ELSE GetOr(legs[p], "mode", "TRANSIT"),
         route_info |-> IF p = 0 THEN EmptyRouteInfo ELSE RouteInfo(legs[p]),
         duration_min |-> RoundDiv(SumOver(legs, first, last, "duration") * 10, 60),
         distance_m |-> SumOver(legs, first, last, "distance"),
         alternatives_available |-> FALSE,
         alternatives |-> <<>>]

\* current_segment_start left where it is when a segment is closed
RECURSIVE SegmentLoop_keep_start(_, _, _, _, _, _)
SegmentLoop_keep_start(legs, tps, leg_idx, current_segment_start, transfer_idx, acc) ==
    IF leg_idx > Len(legs) THEN acc
    ELSE IF transfer_idx <= Len(tps) /\ EndsAt(legs[leg_idx], tps[transfer_idx])
    THEN SegmentLoop_keep_start(legs, tps, leg_idx + 1, current_segment_start,
             transfer_idx + 1,
             Append(acc, RouteSegment(legs, tps, Len(acc) + 1,
                                      current_segment_start, leg_idx, transfer_idx)))
    ELSE SegmentLoop_keep_start(legs, tps, leg_idx + 1, current_segment_start,
                                transfer_idx, acc)

\* the loop of lines 138-182; transfer_idx is 1-based here (code value + 1)
RECURSIVE SegmentLoop(_, _, _, _, _, _)
SegmentLoop(legs, tps, leg_idx, current_segment_start, transfer_idx, acc) ==
    IF leg_idx > Len(legs) THEN acc
    ELSE IF transfer_idx <= Len(tps) /\ EndsAt(legs[leg_idx], tps[transfer_idx])
    THEN SegmentLoop(legs, tps, leg_idx + 1, leg_idx + 1, transfer_idx + 1,
             Append(acc, RouteSegment(legs, tps, Len(acc) + 1,
                                      current_segment_start, leg_idx, transfer_idx)))
    ELSE SegmentLoop(legs, tps, leg_idx + 1, current_segment_start, transfer_idx, acc)

\* transfer_idx starting at the origin point instead of the second point
create_route_segments_from_origin(legs, tps) ==
    IF Len(tps) < 2 THEN <<>>
    ELSE SegmentLoop(legs, tps, 1, 1, 1, <<>>)

create_route_segments(legs, tps) ==
    IF Len(tps) < 2 THEN <<>>
    ELSE SegmentLoop(legs, tps, 1, 1, 2, <<>>)

(***************************************************************************)
(* Segmentation alone: extract_transfer_points, then create_route_segments *)
(***************************************************************************)
\* no provider is asked
NoProvider == [up |-> TRUE, stations |-> <<>>, scooters |-> <<>>]

NoClients == [modes |-> <<>>, pb |-> FALSE, es |-> FALSE, otp |-> FALSE]

\* no call is made
NoGateways == [bikes |-> [ok |-> TRUE, items |-> <<>>],
               returns |-> [ok |-> TRUE, items |-> <<>>],
               scooters |-> [ok |-> TRUE, items |-> <<>>],
               otp_bike |-> [ok |-> TRUE, itineraries |-> <<>>],
               otp_scooter |-> [ok |-> TRUE, itineraries |-> <<>>]]

InitSeg ==
    /\ itinerary \in Itineraries(Legs, MaxLegs)
    /\ clients = NoClients
    /\ pc = "start"
    /\ transfer_points = <<>>
    /\ segments = <<>>
    /\ i = 0
    /\ probes = <<>>
    /\ gateways = NoGateways
    /\ output = <<>>
    /\ raised = FALSE
    /\ provider = NoProvider
    /\ calls = <<>>

Segment ==
    /\ pc = "start"
    /\ transfer_points' = extract_transfer_points(itinerary)
    /\ segments' = create_route_segments(itinerary, transfer_points')
    /\ pc' = "segmented"
    /\ UNCHANGED <<provider, calls, itinerary, clients, i, probes, gateways, output, raised>>

NextSeg == Segment

SpecSeg == InitSeg /\ [][NextSeg]_vars

(***************************************************************************)
(* find_alternative_modes_at_transfer                                      *)
(*                                                                         *)
(* A gateway answer is [ok, items]: ok = FALSE when the call raises, items *)
(* the (candidate, distance) list it returns.  A routing answer is         *)
(* [ok, itineraries].  Durations are in tenths of a minute, costs in       *)
(* hundredths of a franc, distance_km in thousandths of a kilometre.       *)
(***************************************************************************)
WalkSpeed == 80              \* metres per minute
ScooterFloor == 30           \* max(3, ...) minutes
ScooterFallback == 100       \* duration_estimate = 10
ScooterFallbackCost == 500   \* est_cost = 5.0
ScooterUnlock == 100         \* 1.0
ScooterRate == 29            \* 0.29 per minute
BikeCost == 400              \* est_cost_chf 4.0

\* otp_integration.parse_otp_itinerary: the fields used here
parse_otp_itinerary(itin) ==
    [duration_min |-> RoundDiv(itin.duration * 10, 60),
     walk_distance_m |-> itin.walkDistance]

\* round(dist / 80, 1)
WalkMinutes(dist) == RoundDiv(dist * 10, WalkSpeed)

\* lines 235-259: (duration_estimate, distance_km) of the bike alternative
BikeEstimate(otp_client, otp, start_dist, dest_dist) ==
    IF otp_client /\ otp.ok /\ otp.itineraries # <<>>
    THEN LET parsed == parse_otp_itinerary(otp.itineraries[1])
         IN  [duration_min |-> Some(parsed.duration_min + WalkMinutes(start_dist)
                                      + WalkMinutes(dest_dist)),
              distance_km |-> Some(parsed.walk_distance_m)]
    ELSE [duration_min |-> None, distance_km |-> None]

\* scooter_time without max(3, ...)
ScooterEstimate_no_floor(otp_client, otp, scooter_dist) ==
    IF otp_client /\ otp.ok /\ otp.itineraries # <<>>
    THEN LET parsed == parse_otp_itinerary(otp.itineraries[1])
             scooter_time == RoundDiv(parsed.duration_min, 3)
         IN  [duration_min |-> Some(scooter_time + WalkMinutes(scooter_dist)),
              distance_km |-> Some(parsed.walk_distance_m),
              est_cost_chf |-> ScooterUnlock + RoundDiv(scooter_time * ScooterRate, 10)]
    ELSE [duration_min |-> Some(ScooterFallback), distance_km |-> None,
          est_cost_chf |-> ScooterFallbackCost]

\* duration_estimate left None when there is no routed itinerary
ScooterEstimate_no_fallback(otp_client, otp, scooter_dist) ==
    IF otp_client /\ otp.ok /\ otp.itineraries # <<>>
    THEN LET parsed == parse_otp_itinerary(otp.itineraries[1])
             scooter_time == Max(ScooterFloor, RoundDiv(parsed.duration_min, 3))
         IN  [duration_min |-> Some(scooter_time + WalkMinutes(scooter_dist)),
              distance_km |-> Some(parsed.walk_distance_m),
              est_cost_chf |-> ScooterUnlock + RoundDiv(scooter_time * ScooterRate, 10)]
    ELSE [duration_min |-> None, distance_km |-> None,
          est_cost_chf |-> ScooterFallbackCost]

\* lines 303-341: (duration_estimate, distance_km, est_cost) of the scooter alternative
ScooterEstimate(otp_client, otp, scooter_dist) ==
    IF otp_client /\ otp.ok /\ otp.itineraries # <<>>
    THEN LET parsed == parse_otp_itinerary(otp.itineraries[1])
             scooter_time == Max(ScooterFloor, RoundDiv(parsed.duration_min, 3))
         IN  [duration_min |-> Some(scooter_time + WalkMinutes(scooter_dist)),
              distance_km |-> Some(parsed.walk_distance_m),
              est_cost_chf |-> ScooterUnlock + RoundDiv(scooter_time * ScooterRate, 10)]
    ELSE [duration_min |-> Some(ScooterFallback), distance_km |-> None,
          est_cost_chf |-> ScooterFallbackCost]

\* line 230
HasBikePair(nearby_bikes, nearby_returns) ==
    nearby_bikes # <<>> /\ nearby_returns # <<>>

\* len(nearby_scooters) > 1
HasScooter_several(nearby_scooters) == Len(nearby_scooters) > 1

\* line 299
HasScooter(nearby_scooters) == nearby_scooters # <<>>

\* nearby[-1]: the last entry of the gateway's list
Nearest_last(nearby) == nearby[Len(nearby)]

\* lines 231, 232, 300: nearby[0], the first entry of the gateway's list
Nearest(nearby) == nearby[1]

\* the body of the try of lines 213-282: what it appends, and whether it raises
BikeBody(g, otp_client) ==
    IF ~g.bikes.ok THEN [alts |-> <<>>, exc |-> TRUE]
    ELSE IF ~g.returns.ok THEN [alts |-> <<>>, exc |-> TRUE]
    ELSE IF HasBikePair(g.bikes.items, g.returns.items)
    THEN LET start == Nearest(g.bikes.items)
             dest  == Nearest(g.returns.items)
             est   == BikeEstimate(otp_client, g.otp_bike, start.dist, dest.dist)
         IN  [alts |-> << [mode |-> "publibike",
                           start_station |-> start.id,
                           dest_station |-> dest.id,
                           scooter |-> 0,
                           distance_m |-> start.dist,
                           duration_min |-> est.duration_min,
                           distance_km |-> est.distance_km,
                           est_cost_chf |-> BikeCost] >>,
              exc |-> FALSE]
    ELSE [alts |-> <<>>, exc |-> FALSE]

\* the body of the try of lines 289-367
ScooterBody(g, otp_client) ==
    IF ~g.scooters.ok THEN [alts |-> <<>>, exc |-> TRUE]
    ELSE IF HasScooter(g.scooters.items)
    THEN LET scooter == Nearest(g.scooters.items)
             est     == ScooterEstimate(otp_client, g.otp_scooter, scooter.dist)
         IN  [alts |-> << [mode |-> "e_scooter",
                           start_station |-> 0,
                           dest_station |-> 0,
                           scooter |-> scooter.id,
                           distance_m |-> scooter.dist,
                           duration_min |-> est.duration_min,
                           distance_km |-> est.distance_km,
                           est_cost_chf |-> est.est_cost_chf] >>,
              exc |-> FALSE]
    ELSE [alts |-> <<>>, exc |-> FALSE]

\* no handler around the PubliBike lookup
ExceptBike_reraise(body) == body

\* lines 284-285: except Exception around the PubliBike lookup
ExceptBike(body) == [alts |-> body.alts, exc |-> FALSE]

\* no handler around the E-Scooter lookup
ExceptScooter_reraise(body) == body

\* lines 369-370: except Exception around the E-Scooter lookup
ExceptScooter(body) == [alts |-> body.alts, exc |-> FALSE]

\* the scooter block ahead of the bike block
Alternatives_scooter_first(bike, scooter) == scooter.alts \o bike.alts

\* lines 209, 261, 352, 372: the list the two blocks append to, in code order
Alternatives(bike, scooter) == bike.alts \o scooter.alts

\* all_failed: every gateway query this call made raised (and it made one)
find_alternative_modes_at_transfer(cl, g) ==
    LET bike    == IF cl.pb THEN ExceptBike(BikeBody(g, cl.otp))
                   ELSE [alts |-> <<>>, exc |-> FALSE]
        scooter == IF cl.es THEN ExceptScooter(ScooterBody(g, cl.otp))
                   ELSE [alts |-> <<>>, exc |-> FALSE]
        failed  == /\ cl.pb \/ cl.es
                   /\ cl.pb => ~g.bikes.ok
                   /\ cl.es => ~g.scooters.ok
    IN  IF bike.exc \/ scooter.exc
        THEN [alts |-> <<>>, exc |-> TRUE, all_failed |-> failed]
        ELSE [alts |-> Alternatives(bike, scooter), exc |-> FALSE, all_failed |-> failed]

(***************************************************************************)
(* Inputs: clients and provider answers                                    *)
(***************************************************************************)
\* app.api_routes_segmented lines 714, 785-789: the request lists the modes,
\* each client is created when its mode is listed
ModeOrders == { <<>>, <<"publibike">>, <<"e_scooter">>,
                <<"publibike", "e_scooter">>, <<"e_scooter", "publibike">> }

Listed(m, modes) == \E k \in 1..Len(modes) : modes[k] = m

ClientConfigs ==
    { [modes |-> ms, pb |-> Listed("publibike", ms), es |-> Listed("e_scooter", ms),
       otp |-> o] : ms \in ModeOrders, o \in BOOLEAN }

Cand1 == [id |-> 1, dist |-> 40]
Cand2 == [id |-> 2, dist |-> 120]

\* sorted by distance, as the gateways return them
GatewayAnswers ==
    { [ok |-> FALSE, items |-> <<>>] }
    \cup { [ok |-> TRUE, items |-> l] : l \in { <<>>, <<Cand1>>, <<Cand1, Cand2>> } }

\* 20 minutes, and 5 minutes
RoutedItinerary == [duration |-> 1200, walkDistance |-> 2500]
ShortItinerary == [duration |-> 300, walkDistance |-> 600]

\* num_itineraries = 1
RoutingAnswers ==
    { [ok |-> FALSE, itineraries |-> <<>>],
      [ok |-> TRUE, itineraries |-> <<>>],
      [ok |-> TRUE, itineraries |-> <<RoutedItinerary>>] }

\* the walking route from the scooter may be a short one
WalkRoutingAnswers ==
    RoutingAnswers \cup { [ok |-> TRUE, itineraries |-> <<ShortItinerary>>] }

GatewayInputs ==
    [bikes : GatewayAnswers, returns : GatewayAnswers, scooters : GatewayAnswers,
     otp_bike : RoutingAnswers, otp_scooter : WalkRoutingAnswers]

(***************************************************************************)
(* One call of find_alternative_modes_at_transfer                          *)
(***************************************************************************)
ProbePoint == TransferPoint(NameBahnhof, 0, 0, None, None, TRUE)
ProbeDestination == TransferPoint(NameZoo, 20, 5, None, None, FALSE)

InitFind ==
    /\ itinerary = <<>>
    /\ clients \in ClientConfigs
    /\ pc = "start"
    /\ transfer_points = <<ProbePoint, ProbeDestination>>
    /\ segments = <<>>
    /\ i = 0
    /\ probes = <<>>
    /\ gateways \in GatewayInputs
    /\ output = <<>>
    /\ raised = FALSE
    /\ provider = NoProvider
    /\ calls = <<>>

Probe(point, destination, r) ==
    [point |-> point, destination |-> destination,
     alternatives |-> r.alts, all_failed |-> r.all_failed]

FindCall ==
    /\ pc = "start"
    /\ LET r == find_alternative_modes_at_transfer(clients, gateways)
       IN  /\ probes' = <<Probe(1, 2, r)>>
           /\ raised' = r.exc
    /\ pc' = "found"
    /\ UNCHANGED <<provider, calls, itinerary, clients, transfer_points, segments, i, gateways, output>>

NextFind == FindCall

SpecFind == InitFind /\ [][NextFind]_vars

(***************************************************************************)
(* analyze_route_with_alternatives                                         *)
(***************************************************************************)
Init ==
    /\ itinerary \in Itineraries(RouteLegs, MaxRouteLegs)
    /\ clients \in { cl \in ClientConfigs : cl.modes # <<"e_scooter", "publibike">> }
    /\ pc = "start"
    /\ transfer_points = <<>>
    /\ segments = <<>>
    /\ i = 0
    /\ probes = <<>>
    /\ gateways = NoGateways
    /\ output = <<>>
    /\ raised = FALSE
    /\ provider = NoProvider
    /\ calls = <<>>

\* what the providers answer to the calls of one probe; a call that is not made
\* (no client, or an earlier call raised or found nothing) has no answer
Asked(cl) ==
    { g \in GatewayInputs :
        /\ g.otp_scooter \in RoutingAnswers
        /\ ~cl.pb => g.bikes = NoGateways.bikes
        /\ ~(cl.pb /\ g.bikes.ok) => g.returns = NoGateways.returns
        /\ ~(cl.pb /\ cl.otp /\ g.bikes.items # <<>> /\ g.returns.items # <<>>)
              => g.otp_bike = NoGateways.otp_bike
        /\ ~cl.es => g.scooters = NoGateways.scooters
        /\ ~(cl.es /\ cl.otp /\ g.scooters.items # <<>>)
              => g.otp_scooter = NoGateways.otp_scooter }

AnswersTable == [cl \in ClientConfigs |-> Asked(cl)]

AnswersFor(cl) == AnswersTable[cl]

\* the start results attached without setting alternatives_available
AttachStart_noflag(segment, start_alternatives) ==
    IF start_alternatives # <<>>
    THEN [segment EXCEPT !.alternatives = start_alternatives]
    ELSE segment

\* lines 415-417
AttachStart(segment, start_alternatives) ==
    IF start_alternatives # <<>>
    THEN [segment EXCEPT !.alternatives_available = TRUE,
                         !.alternatives = start_alternatives]
    ELSE segment

\* the transfer results replace the start results instead of extending them
AttachTransfer_overwrite(segment, idx, alternatives) ==
    IF alternatives # <<>>
    THEN [segment EXCEPT !.alternatives_available = TRUE,
                         !.alternatives = alternatives]
    ELSE segment

\* lines 434-441; idx is the code's i
AttachTransfer(segment, idx, alternatives) ==
    IF alternatives # <<>>
    THEN IF segment.alternatives_available /\ idx = 0
         THEN [segment EXCEPT !.alternatives = segment.alternatives \o alternatives]
         ELSE [segment EXCEPT !.alternatives_available = TRUE,
                              !.alternatives = alternatives]
    ELSE segment

\* i < len(segments): the last segment probed as well
HasTransferProbe_every(idx, segs) == idx < Len(segs)

\* line 420; idx is the code's i
HasTransferProbe(idx, segs) == idx < Len(segs) - 1

\* the start point of the segment probed once more
next_transfer_from_point(segment) == segment.from_point

\* line 423
next_transfer(segment) == segment.to_point

\* lines 405, 424: transfer_points[-1], as a position
final_dest(tps) == Len(tps)

\* lines 394-397, and the loop entry of line 400
Start ==
    /\ pc = "start"
    /\ transfer_points' = extract_transfer_points(itinerary)
    /\ segments' = create_route_segments(itinerary, transfer_points')
    /\ i' = 0
    /\ pc' = IF segments' = <<>> THEN "return" ELSE "origin"
    /\ UNCHANGED <<provider, calls, itinerary, clients, probes, gateways, output, raised>>

\* lines 402-417: the probe at the start point of the first segment
OriginProbe ==
    /\ pc = "origin"
    /\ \E g \in AnswersFor(clients) :
         LET r == find_alternative_modes_at_transfer(clients, g)
             dest == final_dest(transfer_points)
         IN  IF r.exc
             THEN /\ raised' = TRUE
                  /\ pc' = "raised"
                  /\ probes' = Append(probes, Probe(segments[1].from_point, dest, r))
                  /\ UNCHANGED segments
             ELSE /\ probes' = Append(probes, Probe(segments[1].from_point, dest, r))
                  /\ segments' = [segments EXCEPT ![1] = AttachStart(@, r.alts)]
                  /\ pc' = "transfer"
                  /\ UNCHANGED raised
    /\ UNCHANGED <<provider, calls, itinerary, clients, transfer_points, i, gateways, output>>

\* lines 420-441: the probe at the end point of segment i, then the next segment
TransferProbe ==
    /\ pc = "transfer"
    /\ HasTransferProbe(i, segments)
    /\ \E g \in AnswersFor(clients) :
         LET r == find_alternative_modes_at_transfer(clients, g)
             dest == final_dest(transfer_points)
         IN  IF r.exc
             THEN /\ raised' = TRUE
                  /\ pc' = "raised"
                  /\ probes' = Append(probes, Probe(next_transfer(segments[i + 1]), dest, r))
                  /\ UNCHANGED <<segments, i>>
             ELSE /\ probes' = Append(probes, Probe(next_transfer(segments[i + 1]), dest, r))
                  /\ segments' = [segments EXCEPT ![i + 1] = AttachTransfer(@, i, r.alts)]
                  /\ i' = i + 1
                  /\ pc' = IF i + 1 < Len(segments) THEN "transfer" ELSE "return"
                  /\ UNCHANGED raised
    /\ UNCHANGED <<provider, calls, itinerary, clients, transfer_points, gateways, output>>

\* line 420 false: the segment gets no probe at its end point
NoTransferProbe ==
    /\ pc = "transfer"
    /\ ~HasTransferProbe(i, segments)
    /\ i' = i + 1
    /\ pc' = IF i + 1 < Len(segments) THEN "transfer" ELSE "return"
    /\ UNCHANGED <<provider, calls, itinerary, clients, transfer_points, segments, probes, gateways,
                   output, raised>>

\* lines 443-471
Return ==
    /\ pc = "return"
    /\ output' = << [total_segments |-> Len(segments),
                     total_transfers |-> Len(transfer_points) - 2] >>
    /\ pc' = "done"
    /\ UNCHANGED <<provider, calls, itinerary, clients, transfer_points, segments, i, probes, gateways,
                   raised>>

Next == Start \/ OriginProbe \/ TransferProbe \/ NoTransferProbe \/ Return

Spec == Init /\ [][Next]_vars

(***************************************************************************)
(* Provider gateways (scripts/publiBike_api.py, scripts/e_scooter_api.py). *)
(*                                                                         *)
(* Distances and radii are in centimetres.  All candidates lie on the      *)
(* meridian of the query point.  A gateway result is [ok, items]: ok =     *)
(* FALSE when the call raises, items the list of (candidate, distance).    *)
(***************************************************************************)
EarthRadius == 6371    \* R, in kilometres

\* the Haversine formula for lon1 = lon2, where it is R * |lat2 - lat1| in
\* radians; pi is taken as 355/113
calculate_distance(lat1, lon1, lat2, lon2) ==
    (Abs(lat2 - lat1) * EarthRadius * 355) \div (113 * 180)

\* list.sort(key=lambda x: x[1]) without the sort
SortByDistance_unsorted(items) == items

\* one step of a stable sort: item goes behind the items that are not further
RECURSIVE InsertByDistance(_, _)
InsertByDistance(sorted, item) ==
    IF sorted = <<>> THEN <<item>>
    ELSE IF sorted[Len(sorted)].distance <= item.distance THEN Append(sorted, item)
    ELSE Append(InsertByDistance(SubSeq(sorted, 1, Len(sorted) - 1), item),
                sorted[Len(sorted)])

RECURSIVE SortFrom(_, _, _)
SortFrom(items, k, sorted) ==
    IF k > Len(items) THEN sorted
    ELSE SortFrom(items, k + 1, InsertByDistance(sorted, items[k]))

\* list.sort(key=lambda x: x[1]), a stable sort
SortByDistance(items) == SortFrom(items, 1, <<>>)

Raises == [ok |-> FALSE, items |-> <<>>]
Returns(items) == [ok |-> TRUE, items |-> items]

\* ---- publiBike_api.py ----

\* Station.from_dict; vehicles is the number of entries of the vehicles list
Station_from_dict(data) ==
    [id |-> data.id, latitude |-> data.latitude, longitude |-> data.longitude,
     state |-> Get(GetOr(data, "state", [x \in {} |-> x]), "id"),
     vehicles |-> GetOr(data, "vehicles", 0)]

\* Station.is_active, StationState.is_active
is_active(st) == st.state = Some(1)

\* Station.has_bikes_available
has_bikes_available(st) == st.vehicles > 0

\* the entry of a station in the response of /public/stations
OverviewData(st) ==
    [id |-> st.id, latitude |-> st.latitude, longitude |-> st.longitude,
     state |-> [id |-> st.state_id]]

\* the response of /public/stations/{id}
DetailData(st) == With(OverviewData(st), "vehicles", st.vehicles)

\* PubliBikeClient.get_stations_overview, when the request succeeds
get_stations_overview(prov) ==
    [k \in 1..Len(prov.stations) |-> Station_from_dict(OverviewData(prov.stations[k]))]

\* PubliBikeClient.get_station_details: [ok, station]
get_station_details(prov, station_id) ==
    LET st == prov.stations[CHOOSE k \in 1..Len(prov.stations) :
                                prov.stations[k].id = station_id]
    IN  IF st.detail_ok
        THEN [ok |-> TRUE, station |-> Station_from_dict(DetailData(st))]
        ELSE [ok |-> FALSE, station |-> Station_from_dict(OverviewData(st))]

find_nearby_stations(lat, lon, stations, radius_m, only_active, only_with_bikes) ==
    LET Near(st) ==
            /\ only_active => is_active(st)
            /\ only_with_bikes => has_bikes_available(st)
            /\ calculate_distance(lat, lon, st.latitude, st.longitude) <= radius_m
        kept == SelectSeq(stations, Near)
    IN  SortByDistance([k \in 1..Len(kept) |->
            [candidate |-> kept[k],
             distance |-> calculate_distance(lat, lon, kept[k].latitude,
                                             kept[k].longitude)]])

\* a failing detail fetch leaves the function
get_nearby_bikes_detail_raises(lat, lon, radius_m, prov) ==
    IF ~prov.up THEN Raises
    ELSE LET nearby == find_nearby_stations(lat, lon, get_stations_overview(prov),
                                            radius_m, TRUE, FALSE)
             Detailed(item) == get_station_details(prov, item.candidate.id)
             WithBikes(item) == has_bikes_available(Detailed(item).station)
             kept == SelectSeq(nearby, WithBikes)
         IN  IF \E k \in 1..Len(nearby) : ~Detailed(nearby[k]).ok
             THEN Raises
             ELSE Returns([k \in 1..Len(kept) |->
                      [candidate |-> Detailed(kept[k]).station,
                       distance |-> kept[k].distance]])

get_nearby_bikes(lat, lon, radius_m, prov) ==
    IF ~prov.up THEN Raises
    ELSE LET nearby == find_nearby_stations(lat, lon, get_stations_overview(prov),
                                            radius_m, TRUE, FALSE)
             Detailed(item) == get_station_details(prov, item.candidate.id)
             WithBikes(item) == /\ Detailed(item).ok
                                /\ has_bikes_available(Detailed(item).station)
             kept == SelectSeq(nearby, WithBikes)
         IN  Returns([k \in 1..Len(kept) |->
                 [candidate |-> Detailed(kept[k]).station,
                  distance |-> kept[k].distance]])

get_nearby_return_stations(lat, lon, radius_m, prov) ==
    IF ~prov.up THEN Raises
    ELSE LET nearby == find_nearby_stations(lat, lon, get_stations_overview(prov),
                                            radius_m, TRUE, FALSE)
         IN  Returns([k \in 1..Len(nearby) |->
                 [candidate |-> IF get_station_details(prov, nearby[k].candidate.id).ok
                                THEN get_station_details(prov, nearby[k].candidate.id).station
                                ELSE nearby[k].candidate,
                  distance |-> nearby[k].distance]])

\* ---- e_scooter_api.py ----
VOI_PROVIDER_ID == "voiscooters.com"

\* Scooter.from_api_response
Scooter_from_api_response(data) ==
    LET attributes == GetOr(data, "attributes", [x \in {} |-> x])
        geometry == GetOr(data, "geometry", [x \in {} |-> x])
    IN  [vehicle_id |-> GetOr(attributes, "id", ""),
         latitude |-> GetOr(geometry, "y", 0),
         longitude |-> GetOr(geometry, "x", 0),
         provider_id |-> GetOr(attributes, "provider_id", ""),
         battery_level |-> Get(attributes, "battery_level"),
         is_reserved |-> GetOr(attributes, "vehicle_status_reserved", FALSE),
         is_disabled |-> GetOr(attributes, "vehicle_status_disabled", FALSE)]

\* Scooter.is_available
is_available(scooter) == ~scooter.is_reserved /\ ~scooter.is_disabled

\* VoiScooterClient.get_scooters_near_location, when the request succeeds: the
\* radius goes to the service as 'tolerance' and the response is taken as is
get_scooters_near_location(prov, latitude, longitude, radius_m) ==
    LET parsed == [k \in 1..Len(prov.scooters) |->
                      Scooter_from_api_response(prov.scooters[k])]
        IsVoi(scooter) == scooter.provider_id = VOI_PROVIDER_ID
    IN  SelectSeq(parsed, IsVoi)

\* VoiScooterClient.get_available_scooters_near_location
get_available_scooters_near_location(prov, latitude, longitude, radius_m) ==
    SelectSeq(get_scooters_near_location(prov, latitude, longitude, radius_m),
              is_available)

get_nearby_scooters(lat, lon, radius_m, prov, min_battery_percentage) ==
    IF ~prov.up THEN Raises
    ELSE LET scooters == get_available_scooters_near_location(prov, lat, lon, radius_m)
             Charged(scooter) ==
                 min_battery_percentage # None =>
                     /\ scooter.battery_level # None
                     /\ scooter.battery_level[1] >= min_battery_percentage[1]
             kept == SelectSeq(scooters, Charged)
         IN  Returns(SortByDistance([k \in 1..Len(kept) |->
                 [candidate |-> kept[k],
                  distance |-> calculate_distance(lat, lon, kept[k].latitude,
                                                  kept[k].longitude)]]))

(***************************************************************************)
(* Inputs: what the providers hold                                         *)
(***************************************************************************)
QueryPoint == <<0, 0>>

\* 300 m and 500 m
Radii == { 30000, 50000 }

MinBatteries == { None, Some(50) }

StationAt(id, lat, state_id, vehicles, detail_ok) ==
    [id |-> id, latitude |-> lat, longitude |-> QueryPoint[2], state_id |-> state_id,
     vehicles |-> vehicles, detail_ok |-> detail_ok]

\* at 111 m, 334 m, 445 m and 667 m
StationZoo ==
    { StationAt(1, 400, 1, 1, TRUE),     \* active, one bike
      StationAt(2, 100, 1, 2, TRUE),     \* active, two bikes
      StationAt(3, 100, 2, 2, TRUE),     \* not active
      StationAt(4, 100, 1, 0, TRUE),     \* active, no bike
      StationAt(5, 300, 1, 1, FALSE),    \* details cannot be fetched
      StationAt(6, 600, 1, 1, TRUE) }    \* outside every radius

Feature(id, lat, provider_id) ==
    [attributes |-> [id |-> id, provider_id |-> provider_id],
     geometry |-> [x |-> QueryPoint[2], y |-> lat]]

WithAttribute(feature, key, v) ==
    [feature EXCEPT !.attributes = With(feature.attributes, key, v)]

ScooterZoo ==
    { WithAttribute(Feature("a", 400, VOI_PROVIDER_ID), "battery_level", 80),
      WithAttribute(Feature("b", 100, VOI_PROVIDER_ID), "battery_level", 80),
      WithAttribute(Feature("c", 100, VOI_PROVIDER_ID), "battery_level", 20),
      Feature("d", 200, VOI_PROVIDER_ID),     \* battery level unknown
      WithAttribute(WithAttribute(Feature("e", 100, VOI_PROVIDER_ID),
                                  "battery_level", 80),
                    "vehicle_status_reserved", TRUE),
      WithAttribute(WithAttribute(Feature("f", 200, VOI_PROVIDER_ID),
                                  "battery_level", 80),
                    "vehicle_status_disabled", TRUE),
      WithAttribute(Feature("g", 100, "other.example"), "battery_level", 80) }

\* lists of distinct elements of S, at most n long
RECURSIVE ListsUpTo(_, _)
ListsUpTo(S, n) ==
    IF n = 0 THEN { <<>> }
    ELSE ListsUpTo(S, n - 1)
         \cup { Append(l, x) : l \in { m \in ListsUpTo(S, n - 1) : Len(m) = n - 1 },
                               x \in S }

Distinct(l) == \A a, b \in 1..Len(l) : a # b => l[a] # l[b]

\* the stations with a fixed scooter list, and the scooters with a fixed
\* station list
FixedStations == <<StationAt(1, 400, 1, 1, TRUE), StationAt(3, 100, 2, 2, TRUE),
                   StationAt(2, 100, 1, 2, TRUE)>>

FixedScooters == <<WithAttribute(Feature("a", 400, VOI_PROVIDER_ID), "battery_level", 80),
                   WithAttribute(Feature("b", 100, VOI_PROVIDER_ID), "battery_level", 80)>>

Providers ==
    { [up |-> u, stations |-> st, scooters |-> FixedScooters] :
          u \in BOOLEAN, st \in { l \in ListsUpTo(StationZoo, MaxCandidates) : Distinct(l) } }
    \cup { [up |-> u, stations |-> FixedStations, scooters |-> sc] :
          u \in BOOLEAN, sc \in { l \in ListsUpTo(ScooterZoo, MaxCandidates) : Distinct(l) } }

InitGate ==
    /\ itinerary = <<>>
    /\ clients = NoClients
    /\ pc = "start"
    /\ transfer_points = <<>>
    /\ segments = <<>>
    /\ i = 0
    /\ probes = <<>>
    /\ gateways = NoGateways
    /\ output = <<>>
    /\ raised = FALSE
    /\ provider \in Providers
    /\ calls = <<>>

Call(fn, radius_m, min_battery, result) ==
    [fn |-> fn, radius_m |-> radius_m, min_battery |-> min_battery, result |-> result]

NearbyBikes ==
    /\ Len(calls) < MaxCalls
    /\ \E r \in Radii :
          calls' = Append(calls, Call("get_nearby_bikes", r, None,
                      get_nearby_bikes(QueryPoint[1], QueryPoint[2], r, provider)))
    /\ UNCHANGED <<provider, itinerary, clients, pc, transfer_points, segments, i,
                   probes, gateways, output, raised>>

NearbyReturnStations ==
    /\ Len(calls) < MaxCalls
    /\ \E r \in Radii :
          calls' = Append(calls, Call("get_nearby_return_stations", r, None,
                      get_nearby_return_stations(QueryPoint[1], QueryPoint[2], r,
                                                 provider)))
    /\ UNCHANGED <<provider, itinerary, clients, pc, transfer_points, segments, i,
                   probes, gateways, output, raised>>

NearbyScooters ==
    /\ Len(calls) < MaxCalls
    /\ \E r \in Radii, mb \in MinBatteries :
          calls' = Append(calls, Call("get_nearby_scooters", r, mb,
                      get_nearby_scooters(QueryPoint[1], QueryPoint[2], r, provider, mb)))
    /\ UNCHANGED <<provider, itinerary, clients, pc, transfer_points, segments, i,
                   probes, gateways, output, raised>>

NextGate == NearbyBikes \/ NearbyReturnStations \/ NearbyScooters

SpecGate == InitGate /\ [][NextGate]_vars

(***************************************************************************)
(* Properties of the segmentation                                          *)
(***************************************************************************)
Segmented == pc = "segmented" /\ Len(itinerary) >= 1

\* two legs whose destinations lie within the matching tolerance
CloseLegs(a, b) ==
    /\ Abs(GetOr(ToInfo(itinerary[a]), "lat", 0) - GetOr(ToInfo(itinerary[b]), "lat", 0)) < Tolerance
    /\ Abs(GetOr(ToInfo(itinerary[a]), "lon", 0) - GetOr(ToInfo(itinerary[b]), "lon", 0)) < Tolerance

\* C1: for every itinerary with at least one leg, create_route_segments applied
\* to the transfer points of extract_transfer_points returns exactly
\* len(transfer_points) - 1 segments.
C1_SegmentCount ==
    Segmented => Len(segments) = Len(transfer_points) - 1

\* an itinerary with an intermediate transfer point and two legs whose
\* destinations coincide, segmented
C1_Witness ==
    /\ Segmented
    /\ Len(transfer_points) >= 3
    /\ \E a, b \in 1..Len(itinerary) : a < b /\ CloseLegs(a, b)
    /\ Len(segments) = Len(transfer_points) - 1

\* the segments whose leg span holds leg k
SegmentsOf(k) == { n \in 1..Len(segments) : segments[n].first <= k /\ k <= segments[n].last }

\* C2: the leg spans of the segments cover the full leg sequence, every leg in
\* exactly one segment (no leg left out, no leg in two segments).
C2_Coverage ==
    Segmented => \A k \in 1..Len(itinerary) : Cardinality(SegmentsOf(k)) = 1

\* the adjacent pairs (k, k+1) at which the stated rule asks for a transfer point
TransferPairs ==
    { k \in 1..(Len(itinerary) - 1) :
        \/ Get(itinerary[k], "mode") # Get(itinerary[k + 1], "mode")
        \/ itinerary[k].route # itinerary[k + 1].route
        \/ Contains(bahnhof, lower(itinerary[k].to.name))
        \/ Contains(station, lower(itinerary[k].to.name)) }

\* the j-th smallest element of a set of numbers
Kth(S, j) == CHOOSE k \in S : Cardinality({ m \in S : m <= k }) = j

AtDestinationOf(tp, leg) ==
    /\ tp.name = leg.to.name
    /\ tp.latitude = GetOr(leg.to, "lat", 0)
    /\ tp.longitude = GetOr(leg.to, "lon", 0)

\* C3: an intermediate transfer point is emitted at leg k's destination iff the
\* modes differ, the routes differ or the destination name contains 'bahnhof'
\* or 'station' case-insensitively; one point per pair, in leg order, between
\* the origin point and the destination point.
C3_TransferRule ==
    Segmented =>
        /\ Len(transfer_points) = Cardinality(TransferPairs) + 2
        /\ \A j \in 1..Cardinality(TransferPairs) :
              AtDestinationOf(transfer_points[j + 1], itinerary[Kth(TransferPairs, j)])
        /\ transfer_points[1].name = FromInfo.name
        /\ AtDestinationOf(transfer_points[Len(transfer_points)], itinerary[Len(itinerary)])

\* a pair with several conditions at once (mode, route and station name), a
\* pair with only an upper-case station name and a pair with none
C3_Witness ==
    /\ Segmented
    /\ Len(itinerary) = 3
    /\ Get(itinerary[1], "mode") # Get(itinerary[2], "mode")
    /\ itinerary[1].route # itinerary[2].route
    /\ itinerary[1].to.name = NameBahnhof
    /\ Len(transfer_points) = 3
    /\ Get(itinerary[2], "mode") = Get(itinerary[3], "mode")
    /\ itinerary[2].route = itinerary[3].route
    /\ itinerary[2].to.name = NameZoo

(***************************************************************************)
(* Properties of find_alternative_modes_at_transfer (SpecFind)             *)
(***************************************************************************)
Found == pc = "found"

FoundAlternatives == probes[1].alternatives

ModesOf(alts) == [k \in 1..Len(alts) |-> alts[k].mode]

HasMode(alts, m) == \E k \in 1..Len(alts) : alts[k].mode = m

\* s is t with some elements left out, the others in t's order
RECURSIVE IsSubsequence(_, _)
IsSubsequence(sq, t) ==
    IF sq = <<>> THEN TRUE
    ELSE IF t = <<>> THEN FALSE
    ELSE IF Head(sq) = Head(t) THEN IsSubsequence(Tail(sq), Tail(t))
    ELSE IsSubsequence(sq, Tail(t))

BikeQueryFails == ~gateways.bikes.ok \/ ~gateways.returns.ok

BikePairFound ==
    /\ gateways.bikes.ok /\ gateways.bikes.items # <<>>
    /\ gateways.returns.ok /\ gateways.returns.items # <<>>

ScooterFound == gateways.scooters.ok /\ gateways.scooters.items # <<>>

\* C5: with both clients set, a failing bike-share query leaves the scooter
\* alternative alone in the result, a failing scooter query leaves the bike
\* alternative alone, and no exception reaches the caller.
C5_IndependentFailures ==
    (Found /\ clients.pb /\ clients.es) =>
        /\ (BikeQueryFails /\ ScooterFound) =>
              ~raised /\ ModesOf(FoundAlternatives) = <<"e_scooter">>
        /\ (~gateways.scooters.ok /\ BikePairFound) =>
              ~raised /\ ModesOf(FoundAlternatives) = <<"publibike">>

\* the scooter query raises after the bike alternative was appended
C5_Witness ==
    /\ Found /\ clients.pb /\ clients.es
    /\ ~gateways.scooters.ok /\ BikePairFound
    /\ ModesOf(FoundAlternatives) = <<"publibike">>
    /\ ~raised

C7_Presence ==
    Found =>
        /\ (gateways.bikes.ok /\ gateways.returns.ok) =>
              (HasMode(FoundAlternatives, "publibike") <=>
                  (clients.pb /\ gateways.bikes.items # <<>>
                              /\ gateways.returns.items # <<>>))
        /\ gateways.scooters.ok =>
              (HasMode(FoundAlternatives, "e_scooter") <=>
                  (clients.es /\ gateways.scooters.items # <<>>))
        /\ (gateways.bikes.ok /\ gateways.returns.ok /\ gateways.scooters.ok) => ~raised

\* one scooter and a bike station near the transfer point, no return station
\* near the destination: the scooter alternative only
C7_Witness ==
    /\ Found /\ clients.pb /\ clients.es
    /\ gateways.bikes.ok /\ gateways.bikes.items # <<>>
    /\ gateways.returns.ok /\ gateways.returns.items = <<>>
    /\ gateways.scooters.ok /\ Len(gateways.scooters.items) = 1
    /\ ModesOf(FoundAlternatives) = <<"e_scooter">>
    /\ ~raised

\* C8: when a bike station and a return station are found but the routing call
\* for the bike-share candidate fails, the bike-share alternative is still
\* produced, with duration estimate 18 minutes and null distance.
C8_BikeFallback ==
    (Found /\ clients.pb /\ clients.otp /\ BikePairFound /\ ~gateways.otp_bike.ok) =>
        \E k \in 1..Len(FoundAlternatives) :
            /\ FoundAlternatives[k].mode = "publibike"
            /\ FoundAlternatives[k].duration_min = Some(180)
            /\ FoundAlternatives[k].distance_km = None

(***************************************************************************)
(* Properties of analyze_route_with_alternatives (Spec)                    *)
(***************************************************************************)
Done == pc = "done"

AllProbesFailed ==
    /\ probes # <<>>
    /\ \A n \in 1..Len(probes) : probes[n].all_failed

\* C4: if every provider gateway call fails on every probe, nothing is raised
\* and the result is the segmentation of the itinerary as with no providers
\* configured: alternatives_available false and no alternatives on every segment.
C4_GracefulDegradation ==
    (pc \in {"done", "raised"} /\ AllProbesFailed) =>
        /\ ~raised
        /\ transfer_points = extract_transfer_points(itinerary)
        /\ segments = create_route_segments(itinerary, transfer_points)
        /\ \A n \in 1..Len(segments) :
              ~segments[n].alternatives_available /\ segments[n].alternatives = <<>>

\* both clients set, at least two probes, every gateway call raised
C4_Witness ==
    /\ Done /\ clients.pb /\ clients.es
    /\ Len(probes) >= 2
    /\ AllProbesFailed
    /\ ~raised

LastSegment == segments[Len(segments)]

\* C9 as stated: the last segment has no alternatives, also when the itinerary
\* produces a single segment.
C9_LastSegmentEmpty ==
    (Done /\ Len(segments) >= 1) =>
        LastSegment.alternatives = <<>> /\ ~LastSegment.alternatives_available

\* C9 amended: with at least two segments the last segment has no alternatives;
\* a single segment carries exactly the results of the origin probe.
C9_LastSegmentAmended ==
    Done =>
        /\ Len(segments) >= 2 =>
              LastSegment.alternatives = <<>> /\ ~LastSegment.alternatives_available
        /\ Len(segments) = 1 =>
              /\ Len(probes) = 1
              /\ segments[1].alternatives = probes[1].alternatives

\* several segments, the probe before the last segment found alternatives
C9_Witness ==
    /\ Done /\ Len(segments) >= 2
    /\ probes[Len(probes)].alternatives # <<>>
    /\ probes[Len(probes)].point = LastSegment.from_point
    /\ LastSegment.alternatives = <<>>

\* the probes made at transfer point pt
ProbesAt(pt) == { n \in 1..Len(probes) : probes[n].point = pt }

ResultsAt(pt) == probes[CHOOSE n \in ProbesAt(pt) : TRUE].alternatives

\* C10: with at least two segments, segment 0 carries the origin-probe results
\* followed by the results of the probe at its to-point, every other non-final
\* segment exactly the results of the probe at its own to-point.
C10_Attachment ==
    (Done /\ Len(segments) >= 2) =>
        /\ \A n \in 1..(Len(segments) - 1) : Cardinality(ProbesAt(segments[n].to_point)) = 1
        /\ Cardinality(ProbesAt(segments[1].from_point)) = 1
        /\ segments[1].alternatives =
              ResultsAt(segments[1].from_point) \o ResultsAt(segments[1].to_point)
        /\ \A n \in 2..(Len(segments) - 1) :
              segments[n].alternatives = ResultsAt(segments[n].to_point)

\* three segments; the origin probe and the two transfer probes all found
\* alternatives, those of the two segments differ
C10_Witness ==
    /\ Done /\ Len(segments) >= 3
    /\ ResultsAt(segments[1].from_point) # <<>>
    /\ ResultsAt(segments[1].to_point) # <<>>
    /\ ResultsAt(segments[2].to_point) # <<>>
    /\ ResultsAt(segments[2].to_point) # ResultsAt(segments[1].to_point)
    /\ Len(segments[1].alternatives) >= 2

\* C11: in the output, alternatives_available is true iff the segment's
\* alternatives list is non-empty.
C11_AvailableIff ==
    Done => \A n \in 1..Len(segments) :
                segments[n].alternatives_available <=> segments[n].alternatives # <<>>

\* the origin probe found alternatives, the transfer probe of segment 0 none,
\* the transfer probe of the next segment some
C11_Witness ==
    /\ Done /\ Len(segments) >= 3
    /\ ResultsAt(segments[1].from_point) # <<>>
    /\ ResultsAt(segments[1].to_point) = <<>>
    /\ ResultsAt(segments[2].to_point) # <<>>
    /\ segments[1].alternatives_available
    /\ segments[2].alternatives_available
    /\ ~segments[3].alternatives_available

\* C12: the output reports total_segments = number of segments and
\* total_transfers = number of transfer points - 2, the number of intermediate
\* transfer points, never negative.
C12_Totals ==
    Done =>
        /\ output[1].total_segments = Len(segments)
        /\ output[1].total_transfers = Len(transfer_points) - 2
        /\ output[1].total_transfers =
              Cardinality({ n \in 1..Len(transfer_points) : 1 < n /\ n < Len(transfer_points) })
        /\ output[1].total_transfers >= 0

\* C13: an itinerary with zero legs never yields a result with segment and
\* transfer counts; it is rejected with a failure surfaced to the caller.
C13_NoLegsRejected ==
    Len(itinerary) = 0 =>
        /\ output = <<>>
        /\ pc # "start" => raised

(***************************************************************************)
(* Properties of the transfer points and of the segment fields             *)
(***************************************************************************)
Extracted == pc # "start" /\ Len(itinerary) >= 1

SingleWalkLeg == Len(itinerary) = 1 /\ Get(itinerary[1], "mode") = Some("WALK")

NoProviders == ~clients.pb /\ ~clients.es

\* C14: for an itinerary with at least one leg there are at least 2 transfer
\* points, the first at the origin of the first leg and the last at the
\* destination of the last leg; one leg gives exactly these 2 points, and one
\* WALK leg analysed without providers gives 1 WALK segment with no
\* alternatives.
C14_OriginAndDestination ==
    Extracted =>
        /\ Len(transfer_points) >= 2
        /\ transfer_points[1].name = FromInfo.name
        /\ transfer_points[1].latitude = FromInfo.lat
        /\ transfer_points[1].longitude = FromInfo.lon
        /\ AtDestinationOf(transfer_points[Len(transfer_points)], itinerary[Len(itinerary)])
        /\ Len(itinerary) = 1 => Len(transfer_points) = 2
        /\ (Done /\ SingleWalkLeg /\ NoProviders) =>
              /\ Len(segments) = 1
              /\ segments[1].mode = "WALK"
              /\ segments[1].alternatives = <<>>
              /\ ~segments[1].alternatives_available

\* the single WALK leg analysed with no provider configured
C14_Witness ==
    /\ Done /\ SingleWalkLeg /\ NoProviders
    /\ Len(transfer_points) = 2
    /\ Len(segments) = 1
    /\ output[1].total_transfers = 0

\* the legs of segment n whose mode is not WALK
NonWalkIn(n) ==
    { k \in segments[n].first..segments[n].last : Get(itinerary[k], "mode") # Some("WALK") }

Least(S) == CHOOSE k \in S : \A m \in S : k <= m

HasRouteIdentityOf(segment, leg) ==
    /\ segment.route_info.route = Get(leg, "route")
    /\ segment.route_info.route_short_name = Get(leg, "routeShortName")
    /\ segment.route_info.route_long_name = Get(leg, "routeLongName")
    /\ segment.route_info.headsign = Get(leg, "headsign")

\* WALK, TRAM, WALK
ScenarioB ==
    /\ Len(itinerary) = 3
    /\ Get(itinerary[1], "mode") = Some("WALK")
    /\ Get(itinerary[2], "mode") = Some("TRAM")
    /\ Get(itinerary[3], "mode") = Some("WALK")

Intermediate == { n \in 1..Len(transfer_points) : 1 < n /\ n < Len(transfer_points) }

EndPointTimes ==
    /\ transfer_points[1].arrival_time = None
    /\ transfer_points[1].departure_time # None
    /\ transfer_points[Len(transfer_points)].arrival_time # None
    /\ transfer_points[Len(transfer_points)].departure_time = None

\* C16: the first point has a departure time and no arrival time, the last an
\* arrival time and no departure time, and every intermediate point has both
\* timestamps set and equal to each other.
C16_SameMoment ==
    Segmented =>
        /\ EndPointTimes
        /\ \A n \in Intermediate :
              /\ transfer_points[n].arrival_time # None
              /\ transfer_points[n].departure_time # None
              /\ transfer_points[n].arrival_time = transfer_points[n].departure_time

\* C16 as the code has it, for legs that carry startTime and endTime: the first
\* point has the first leg's startTime as departure time and no arrival time,
\* the last the last leg's endTime as arrival time and no departure time, and
\* the intermediate point between legs k and k+1 has leg k's endTime as
\* arrival time and leg k+1's startTime as departure time.
C16_LegTimes ==
    Segmented =>
        /\ EndPointTimes
        /\ transfer_points[1].departure_time = Some(itinerary[1].startTime)
        /\ transfer_points[Len(transfer_points)].arrival_time
              = Some(itinerary[Len(itinerary)].endTime)
        /\ Cardinality(Intermediate) = Cardinality(TransferPairs)
        /\ \A j \in 1..Cardinality(TransferPairs) :
              LET k == Kth(TransferPairs, j)
              IN  /\ transfer_points[j + 1].arrival_time = Some(itinerary[k].endTime)
                  /\ transfer_points[j + 1].departure_time = Some(itinerary[k + 1].startTime)

\* a transfer with a wait and a transfer without one
C16_Witness ==
    /\ Segmented
    /\ Len(transfer_points) = 4
    /\ transfer_points[2].arrival_time # transfer_points[2].departure_time
    /\ transfer_points[3].arrival_time = transfer_points[3].departure_time

\* a leg without the mode or the destination coordinates
Malformed(leg) ==
    \/ "mode" \notin DOMAIN leg
    \/ "lat" \notin DOMAIN ToInfo(leg)
    \/ "lon" \notin DOMAIN ToInfo(leg)

\* C20: the boundary after a leg that lacks its mode or its destination
\* coordinates gets no transfer point, so there are at most as many
\* intermediate points as boundaries after complete legs, and the segmentation
\* completes.
C20_MalformedNoTransfer ==
    (pc # "start" /\ Len(itinerary) >= 1) =>
        /\ pc = "segmented"
        /\ Cardinality(Intermediate)
              <= Cardinality({ k \in 1..(Len(itinerary) - 1) : ~Malformed(itinerary[k]) })

(***************************************************************************)
(* Properties of the provider gateways (SpecGate)                          *)
(***************************************************************************)
ItemsOf(call) == { call.result.items[k] : k \in 1..Len(call.result.items) }

\* two calls of the same gateway with the same filters
SameQuery(a, b) == a.fn = b.fn /\ a.min_battery = b.min_battery

\* C17: every candidate a gateway returns has a distance of at most the
\* requested radius, whatever the provider holds, and for radii r1 <= r2 over
\* the same provider data the candidates for r1 are among those for r2.
C17_WithinRadius ==
    /\ \A n \in 1..Len(calls) : \A item \in ItemsOf(calls[n]) :
          item.distance <= calls[n].radius_m
    /\ \A a, b \in 1..Len(calls) :
          (SameQuery(calls[a], calls[b]) /\ calls[a].radius_m <= calls[b].radius_m)
              => ItemsOf(calls[a]) \subseteq ItemsOf(calls[b])

Ascending(items) ==
    \A a, b \in 1..Len(items) : a < b => items[a].distance <= items[b].distance

HoldsScooter(id) ==
    \E k \in 1..Len(provider.scooters) : provider.scooters[k].attributes.id = id

ProbedPoints == [k \in 1..Len(probes) |-> probes[k].point]

\* C21: for an itinerary with at least one leg the alternative finder is
\* invoked exactly once for each transfer point except the destination, the
\* origin first and then the intermediate points in list order, never with the
\* destination as the probed point and always with the last transfer point as
\* the destination argument.
C21_ProbeOrder ==
    Extracted =>
        /\ Len(probes) <= Len(transfer_points) - 1
        /\ \A k \in 1..Len(probes) :
              /\ probes[k].point = k
              /\ probes[k].point # Len(transfer_points)
              /\ probes[k].destination = Len(transfer_points)
        /\ Done => Len(probes) = Len(transfer_points) - 1

\* an itinerary with two intermediate transfer points analysed to the end
C21_Witness ==
    /\ Done
    /\ Len(transfer_points) = 4
    /\ ProbedPoints = <<1, 2, 3>>

(***************************************************************************)
(* Properties of the alternatives of one call (SpecFind)                   *)
(***************************************************************************)
\* id is the identifier of an entry of items that no entry is nearer than
IsNearestOf(id, items) ==
    \E k \in 1..Len(items) :
        /\ items[k].id = id
        /\ \A m \in 1..Len(items) : items[k].dist <= items[m].dist

\* C22: the scooter of a scooter alternative has the minimum distance among the
\* scooters the gateway returned for the probe, and the start station and the
\* destination station of a bike alternative have the minimum distance among
\* the returned bike stations and return stations.
C22_NearestCandidate ==
    Found => \A k \in 1..Len(FoundAlternatives) :
        LET alt == FoundAlternatives[k]
        IN  /\ alt.mode = "e_scooter" =>
                  /\ IsNearestOf(alt.scooter, gateways.scooters.items)
                  /\ \A m \in 1..Len(gateways.scooters.items) :
                        alt.distance_m <= gateways.scooters.items[m].dist
            /\ alt.mode = "publibike" =>
                  /\ IsNearestOf(alt.start_station, gateways.bikes.items)
                  /\ IsNearestOf(alt.dest_station, gateways.returns.items)

\* both gateways returned two candidates and both alternatives were produced
C22_Witness ==
    /\ Found
    /\ Len(gateways.scooters.items) = 2
    /\ Len(gateways.bikes.items) = 2
    /\ Len(gateways.returns.items) = 2
    /\ Len(FoundAlternatives) = 2
    /\ FoundAlternatives[1].start_station = Cand1.id
    /\ FoundAlternatives[2].scooter = Cand1.id

\* the identifiers of the scooters, in ascending order
ScooterIds == <<"a", "b", "c", "d", "e", "f", "g">>

Rank(vehicle_id) == CHOOSE k \in 1..Len(ScooterIds) : ScooterIds[k] = vehicle_id

\* candidate x is listed before candidate y by identifier
IdBefore(fn, x, y) ==
    IF fn = "get_nearby_scooters"
    THEN Rank(x.vehicle_id) <= Rank(y.vehicle_id)
    ELSE x.id <= y.id

\* C23: two candidates of a gateway result with equal distance are ordered by
\* their provider-assigned identifier, so the result does not depend on the
\* order in which the provider listed them.
C23_TiesById ==
    \A n \in 1..Len(calls) :
        LET items == calls[n].result.items
        IN  \A a, b \in 1..Len(items) :
                (a < b /\ items[a].distance = items[b].distance)
                    => IdBefore(calls[n].fn, items[a].candidate, items[b].candidate)

\* the routing call was made and returned an itinerary
Routed(answer) == clients.otp /\ answer.ok /\ answer.itineraries # <<>>

\* the duration of the first routed itinerary in tenths of a minute
RoutedMinutes(answer) == RoundDiv(answer.itineraries[1].duration * 10, 60)

\* the walk over dist metres at 80 m/min, in tenths of a minute
WalkAt80(dist) == RoundDiv(dist * 10, 80)

AlternativesOf(m) ==
    { FoundAlternatives[k] : k \in { n \in 1..Len(FoundAlternatives) :
                                        FoundAlternatives[n].mode = m } }

\* C24: with a routed itinerary the scooter alternative's duration is
\* max(3, routed walking duration / 3) plus the walk to the scooter at
\* 80 m/min, the ride part never below 3 minutes; the bike alternative's
\* duration is the routed bicycle duration plus the walk to the start station
\* and the walk from the destination station, each at 80 m/min.
C24_RoutedDuration ==
    Found =>
        /\ \A alt \in AlternativesOf("e_scooter") :
              Routed(gateways.otp_scooter) =>
                  LET ride == Max(30, RoundDiv(RoutedMinutes(gateways.otp_scooter), 3))
                      walk == WalkAt80(gateways.scooters.items[1].dist)
                  IN  /\ alt.duration_min = Some(ride + walk)
                      /\ alt.duration_min[1] - walk >= 30
        /\ \A alt \in AlternativesOf("publibike") :
              Routed(gateways.otp_bike) =>
                  alt.duration_min
                      = Some(RoutedMinutes(gateways.otp_bike)
                             + WalkAt80(gateways.bikes.items[1].dist)
                             + WalkAt80(gateways.returns.items[1].dist))

\* a routed walk of 5 minutes from the scooter: the ride is 3 minutes, and a
\* routed bicycle itinerary
C24_Witness ==
    /\ Found
    /\ Routed(gateways.otp_scooter) /\ Routed(gateways.otp_bike)
    /\ gateways.otp_scooter.itineraries = <<ShortItinerary>>
    /\ \E alt \in AlternativesOf("e_scooter") : alt.duration_min = Some(35)
    /\ \E alt \in AlternativesOf("publibike") : alt.duration_min = Some(210)

\* the ride minutes (in tenths) the scooter alternative's duration was made of
RideMinutes ==
    IF Routed(gateways.otp_scooter)
    THEN Max(30, RoundDiv(RoutedMinutes(gateways.otp_scooter), 3))
    ELSE 100

\* C25: every bike-share alternative has the same flat cost, and every scooter
\* alternative costs the unlock fee plus the per-minute rate times the ride
\* minutes of its duration estimate (1.00 + 0.29 x ride minutes, to the cent),
\* routed or not.
C25_CostFormula ==
    Found =>
        /\ \A alt \in AlternativesOf("publibike") : alt.est_cost_chf = 400
        /\ \A alt \in AlternativesOf("e_scooter") :
              alt.est_cost_chf = 100 + RoundDiv(29 * RideMinutes, 10)

\* C26: a scooter found without a routing client, with a routing call that
\* raises or with a routing answer without itinerary gives a scooter
\* alternative of exactly 10 minutes and null distance; every scooter
\* alternative has a non-null duration.
C26_ScooterFallback ==
    Found =>
        /\ (clients.es /\ gateways.scooters.ok /\ gateways.scooters.items # <<>>)
              => AlternativesOf("e_scooter") # {}
        /\ \A alt \in AlternativesOf("e_scooter") :
              /\ alt.duration_min # None
              /\ ~Routed(gateways.otp_scooter) =>
                    /\ alt.duration_min = Some(100)
                    /\ alt.distance_km = None

\* a scooter found and a routing call that raised
C26_Witness ==
    /\ Found
    /\ clients.es /\ clients.otp
    /\ gateways.scooters.items # <<>>
    /\ ~gateways.otp_scooter.ok
    /\ \E alt \in AlternativesOf("e_scooter") :
          alt.duration_min = Some(100) /\ alt.distance_km = None

(***************************************************************************)
(* Properties of the is_station flag and of the segment aggregates         *)
(***************************************************************************)
StationName(name) == Contains(bahnhof, lower(name)) \/ Contains(station, lower(name))

\* C27: the origin point's is_station is true exactly when the first leg's mode
\* is not WALK, the destination point's is false, and an intermediate point's
\* is true exactly when it is reached by a non-WALK leg or its name matches
\* the station heuristic.
C27_IsStation ==
    Segmented =>
        /\ transfer_points[1].is_station <=> Get(itinerary[1], "mode") # Some("WALK")
        /\ ~transfer_points[Len(transfer_points)].is_station
        /\ \A j \in 1..Cardinality(TransferPairs) :
              LET leg == itinerary[Kth(TransferPairs, j)]
              IN  transfer_points[j + 1].is_station
                     <=> (Get(leg, "mode") # Some("WALK") \/ StationName(leg.to.name))

\* sum of leg[key] over the legs whose indices are in S
RECURSIVE Total(_, _)
Total(S, key) ==
    IF S = {} THEN 0
    ELSE LET k == CHOOSE m \in S : TRUE
         IN  itinerary[k][key] + Total(S \ {k}, key)

SpanOf(n) == segments[n].first..segments[n].last

RECURSIVE SegmentDistances(_)
SegmentDistances(n) ==
    IF n = 0 THEN 0 ELSE segments[n].distance_m + SegmentDistances(n - 1)

EveryLegCovered == \A k \in 1..Len(itinerary) : Cardinality(SegmentsOf(k)) = 1

\* C28: a segment's distance_m is the sum of the distances of the legs of its
\* span, its duration_min the sum of their durations in seconds converted to
\* minutes and rounded once; when every leg is covered the segments' distances
\* add up to the distance of all legs.
C28_Aggregates ==
    Segmented =>
        /\ \A n \in 1..Len(segments) :
              /\ segments[n].distance_m = Total(SpanOf(n), "distance")
              /\ segments[n].duration_min
                    = RoundDiv(Total(SpanOf(n), "duration") * 10, 60)
        /\ EveryLegCovered =>
              SegmentDistances(Len(segments)) = Total(1..Len(itinerary), "distance")

\* a segment of two walking legs of 130 s each: 4.3 minutes, where the legs'
\* rounded minutes add up to 4.4
C28_Witness ==
    /\ Segmented /\ EveryLegCovered
    /\ \E n \in 1..Len(segments) :
          /\ segments[n].last = segments[n].first + 1
          /\ Total(SpanOf(n), "duration") = 260
          /\ segments[n].duration_min = 43
          /\ segments[n].distance_m = 30024

\* C29: the leg spans of the segments are consecutive, do not overlap and start
\* at the first leg, so they cover a prefix of the legs; segment k has id k and
\* runs from transfer point k-1 to transfer point k (positions k and k+1).
C29_ConsecutiveSpans ==
    Segmented =>
        /\ segments # <<>> => segments[1].first = 1
        /\ \A n \in 1..Len(segments) :
              /\ segments[n].first <= segments[n].last
              /\ segments[n].last <= Len(itinerary)
              /\ n > 1 => segments[n].first = segments[n - 1].last + 1
              /\ segments[n].segment_id = n
              /\ segments[n].from_point = n
              /\ segments[n].to_point = n + 1
        /\ \A k \in 1..Len(itinerary) :
              Cardinality(SegmentsOf(k)) = 0 =>
                  \A m \in k..Len(itinerary) : Cardinality(SegmentsOf(m)) = 0

\* two segments over the first two of three legs, the third left uncovered
C29_Witness ==
    /\ Segmented
    /\ Len(itinerary) = 3
    /\ Len(segments) = 2
    /\ segments[2].last = 2
    /\ Cardinality(SegmentsOf(3)) = 0

(***************************************************************************)
(* Properties of the station-detail fetches (SpecGate)                     *)
(***************************************************************************)
\* the stations of the overview that are active and within the radius
NearActive(radius_m) ==
    { k \in 1..Len(provider.stations) :
        /\ provider.stations[k].state_id = 1
        /\ calculate_distance(QueryPoint[1], QueryPoint[2],
                              provider.stations[k].latitude,
                              provider.stations[k].longitude) <= radius_m }

IdsOf(call) == { item.candidate.id : item \in ItemsOf(call) }

StationWithId(id) ==
    provider.stations[CHOOSE k \in 1..Len(provider.stations) : provider.stations[k].id = id]

\* C30: in get_nearby_bikes a station whose detail fetch fails is left out and
\* the others are still returned; in get_nearby_return_stations it is kept with
\* its overview data; the call fails only when the overview fetch fails, and
\* the result stays ascending by distance.
C30_DetailFailures ==
    \A n \in 1..Len(calls) :
        calls[n].fn \in {"get_nearby_bikes", "get_nearby_return_stations"} =>
            /\ calls[n].result.ok <=> provider.up
            /\ Ascending(calls[n].result.items)
            /\ (provider.up /\ calls[n].fn = "get_nearby_bikes") =>
                  IdsOf(calls[n])
                      = { provider.stations[k].id :
                            k \in { m \in NearActive(calls[n].radius_m) :
                                      /\ provider.stations[m].detail_ok
                                      /\ provider.stations[m].vehicles > 0 } }
            /\ (provider.up /\ calls[n].fn = "get_nearby_return_stations") =>
                  /\ IdsOf(calls[n])
                        = { provider.stations[k].id : k \in NearActive(calls[n].radius_m) }
                  /\ \A item \in ItemsOf(calls[n]) :
                        item.candidate.vehicles
                            = IF StationWithId(item.candidate.id).detail_ok
                              THEN StationWithId(item.candidate.id).vehicles
                              ELSE 0

HoldsStation(id) ==
    \E k \in 1..Len(provider.stations) : provider.stations[k].id = id

\* the provider holds the station whose details cannot be fetched and two
\* others; the bikes were asked for and gave the others, the return stations
\* were asked for and gave all three
C30_Witness ==
    /\ provider.up
    /\ HoldsStation(5) /\ HoldsStation(1) /\ HoldsStation(2)
    /\ Len(calls) = 2
    /\ calls[1].fn = "get_nearby_bikes"
    /\ IdsOf(calls[1]) = {1, 2}
    /\ calls[2].fn = "get_nearby_return_stations"
    /\ IdsOf(calls[2]) = {1, 2, 5}

====
